---- MODULE Spec2Model ----
(***************************************************************************)
(* A model of libschedule24: the cache-keyed fetcher (cache_request), the  *)
(* query layer built on it (get_schools, domain_exists), the envelope      *)
(* unwrapper (TryFrom<Response<APIResult<T>>>), the colour and dimension   *)
(* parsers, the lesson-info enrichment (add_box_info) and the text layout  *)
(* of generate_svg.                                                        *)
(*                                                                         *)
(* Conventions.  An Option<T> is a set with at most one element: None is   *)
(* {} and Some(x) is {x}.  A Result is a record tagged "Ok" or "Err"; a    *)
(* panic (an unwrap of None, a slice index out of range) is the result     *)
(* tagged "Panic".  A string the code looks into is a sequence of          *)
(* one-character strings; the characters are ASCII, so that the byte       *)
(* offsets of the code are character positions.                            *)
(***************************************************************************)
EXTENDS Integers, Sequences, FiniteSets, TLC

VARIABLES
    store,        \* the cache store: cache key -> Option<response text>
    pc,           \* where the call in progress stands
    call,         \* the call in progress: operation and arguments
    store0,       \* the store as it was when the call began
    lastRead,     \* what cacache::read answered in this call
    keyCalls,     \* render-key requests of this call
    dataCalls,    \* data requests of this call
    storeReads,   \* cacache::read calls of this call
    storeWrites,  \* cacache::write calls of this call
    keyRes,       \* what get_key returned in this call
    fetched,      \* Option<the text the data request returned>
    crRet,        \* what cache_request returned
    gsRet,        \* what get_schools returned
    ret,          \* what the called operation returned
    prev,         \* Option<the previous call, when it was a cache hit>
    uIn, uOut,    \* envelope unwrapping: input and result
    cIn, cOut,    \* Rgb::from_str: input and result
    dIn, dOut,    \* Dimensions::from_str: input and result
    bIn, bOut,    \* add_box_info: input and result
    sIn, sOut,    \* generate_svg: input and result
    qIn,          \* get_schema: the queries of two calls in a row
    qStore,       \* get_schema: the cache store the calls share
    qOut          \* get_schema: what each call made so far did and returned

cacheVars == <<store, pc, call, store0, lastRead, keyCalls, dataCalls,
               storeReads, storeWrites, keyRes, fetched, crRet, gsRet, ret,
               prev>>
unwrapVars == <<uIn, uOut>>
colorVars == <<cIn, cOut>>
dimVars == <<dIn, dOut>>
boxVars == <<bIn, bOut>>
svgVars == <<sIn, sOut>>
schemaVars == <<qIn, qStore, qOut>>
pureVars == <<unwrapVars, colorVars, dimVars, boxVars, svgVars, schemaVars>>
vars == <<cacheVars, pureVars>>

----------------------------------------------------------------------------
(* Results and options *)

None == {}
Some(x) == {x}
Unwrap(o) == CHOOSE x \in o : TRUE

Ok(v) == [tag |-> "Ok", val |-> v]
Err(e) == [tag |-> "Err", err |-> e]
Panic == [tag |-> "Panic"]
NoResult == [tag |-> "None"]

\* The variants of RequestError the model reaches.
ReqwestError(cause) == [kind |-> "Reqwest", cause |-> cause]
SerdeError == [kind |-> "Serde"]
BaseDirectoriesError == [kind |-> "BaseDirectories"]
IOError == [kind |-> "IO"]
CacacheError(cause) == [kind |-> "Cacache", cause |-> cause]
EmptyError == [kind |-> "Empty"]

----------------------------------------------------------------------------
(* Bounds *)

\* The longest validationErrors list of a response.
MaxErrs == 2

\* The validation error ids of the responses: the id domain_exists looks
\* for, and another one.
DomainMissingId == 1
ErrIds == {DomainMissingId, DomainMissingId + 1}

RECURSIVE SeqsUpTo(_, _)
SeqsUpTo(S, n) ==
    IF n = 0 THEN {<<>>}
    ELSE LET shorter == SeqsUpTo(S, n - 1)
         IN  shorter \cup {Append(s, x) : s \in shorter, x \in S}

----------------------------------------------------------------------------
(* The envelope model (data.rs) *)

\* serde_json::Value, as far as the code looks at it: null or not.
JNull == "null"
JValues == {JNull, "value"}
is_null(v) == v = JNull

\* enum APIResult<T> { Success(T), Failure(ErrorData) }
Success(x) == [variant |-> "Success", x |-> x]
Failure(e) == [variant |-> "Failure", e |-> e]

\* enum SchemaError { API(ErrorData), Request(reqwest::Error), APIRoot }
API(e) == [variant |-> "API", data |-> e]
APIRoot == [variant |-> "APIRoot"]
\* impl_from!(data::SchemaError, Schema)
SchemaError(e) == [kind |-> "Schema", inner |-> e]

ValidationError(i) == [id |-> i, description |-> "d"]
ErrorData(verrs) == [errors |-> JNull, validation_errors |-> verrs]
VerrLists == SeqsUpTo({ValidationError(i) : i \in ErrIds}, MaxErrs)

School(g, i) == [unit_guid |-> g, unit_id |-> i]
DomainInfo(host, units) ==
    [domain_school_list |-> [host_name |-> host, units |-> units]]
\* DomainInfo::default(): what #[derive(Default)] gives.
DefaultDomainInfo == DomainInfo("", <<>>)

\* try_from without the root check: a failure payload under a root error
\* is reported as an API failure, a success payload is unwrapped.
try_from_no_root_check(v) ==
    IF v.data.variant = "Success"
    THEN Ok([data |-> v.data.x,
             error |-> v.error,
             exception |-> v.exception,
             validation |-> v.validation,
             session_expires |-> v.session_expires,
             need_session_refresh |-> v.need_session_refresh])
    ELSE Err(API(v.data.e))

\* impl<T> TryFrom<Response<APIResult<T>>> for Response<T>
try_from(v) ==
    IF ~is_null(v.error)
    THEN Err(APIRoot)
    ELSE IF v.data.variant = "Success"
         THEN Ok([data |-> v.data.x,
                  error |-> v.error,
                  exception |-> v.exception,
                  validation |-> v.validation,
                  session_expires |-> v.session_expires,
                  need_session_refresh |-> v.need_session_refresh])
         ELSE Err(API(v.data.e))

----------------------------------------------------------------------------
(* Response texts and their decoding *)

\* A response text.  Text that is JSON of the envelope's shape carries the
\* envelope's fields under their JSON names; its data object may carry
\* getTimetableViewerUnitsResponse, validationErrors, both or neither.
NotJson == [json |-> FALSE]
JsonBody(error, unitsResponse, validationErrors) ==
    [json |-> TRUE,
     error |-> error,
     data |-> [getTimetableViewerUnitsResponse |-> unitsResponse,
               errors |-> JNull,
               validationErrors |-> validationErrors],
     exception |-> JNull,
     validation |-> <<>>,
     sessionExpires |-> JNull,
     needSessionRefresh |-> FALSE]

UnitsResponse == [hostName |-> "d1",
                  units |-> <<[unitGuid |-> "u1", unitId |-> "s1"]>>]

Bodies ==
    {NotJson}
    \cup {JsonBody(JNull, Some(UnitsResponse), None)}
    \cup {JsonBody(JNull, None, Some(l)) : l \in VerrLists}
    \cup {JsonBody(JNull, None, None)}
    \cup {JsonBody(JNull, Some(UnitsResponse),
                   Some(<<ValidationError(DomainMissingId)>>))}
    \cup {JsonBody("value", Some(UnitsResponse), None)}
    \cup {JsonBody("value", None, Some(<<ValidationError(DomainMissingId)>>))}

\* #[serde(rename_all = "camelCase")] struct School
DecodeSchool(j) == School(j.unitGuid, j.unitId)

\* #[serde(untagged)] enum APIResult<DomainInfo>: the Success shape is tried
\* first, then the Failure shape; a data object of neither shape is a
\* serde error.
DecodeAPIResult(d) ==
    IF d.getTimetableViewerUnitsResponse # None
    THEN LET r == Unwrap(d.getTimetableViewerUnitsResponse)
         IN  Ok(Success(DomainInfo(r.hostName,
                    [i \in DOMAIN r.units |-> DecodeSchool(r.units[i])])))
    ELSE IF d.validationErrors # None
         THEN Ok(Failure([errors |-> d.errors,
                          validation_errors |-> Unwrap(d.validationErrors)]))
         ELSE Err(SerdeError)

\* serde_json::from_str::<Response<APIResult<DomainInfo>>>
DecodeResponse(text) ==
    IF ~text.json
    THEN Err(SerdeError)
    ELSE LET d == DecodeAPIResult(text.data)
         IN  IF d.tag = "Err"
             THEN d
             ELSE Ok([error |-> text.error,
                      data |-> d.val,
                      exception |-> text.exception,
                      validation |-> text.validation,
                      session_expires |-> text.sessionExpires,
                      need_session_refresh |-> text.needSessionRefresh])

----------------------------------------------------------------------------
(* The query layer (lib.rs) *)

\* get_schools after cache_request has answered r: the `?` on r, the
\* decoding, the unwrapping, and the units of the payload.
get_schools_of(r) ==
    IF r.tag # "Ok"
    THEN r
    ELSE LET parsed == DecodeResponse(r.val)
         IN  IF parsed.tag = "Err"
             THEN parsed
             ELSE LET result == try_from(parsed.val)
                  IN  IF result.tag = "Err"
                      THEN Err(SchemaError(result.err))
                      ELSE Ok(result.val.data.domain_school_list.units)

\* domain_exists answering false whenever some validation error has id 1.
domain_exists_any_id(result) ==
    IF result.tag = "Ok"
    THEN Ok(TRUE)
    ELSE IF result.tag = "Err" /\ result.err.kind = "Schema"
         THEN IF result.err.inner.variant = "API"
              THEN LET e == result.err.inner.data
                   IN  IF \E i \in DOMAIN e.validation_errors :
                              e.validation_errors[i].id = DomainMissingId
                       THEN Ok(FALSE)
                       ELSE Err(SchemaError(API(e)))
              ELSE Err(SchemaError(result.err.inner))
         ELSE result

\* domain_exists after get_schools has answered result.
domain_exists_of(result) ==
    IF result.tag = "Ok"
    THEN Ok(TRUE)
    ELSE IF result.tag = "Err" /\ result.err.kind = "Schema"
         THEN IF result.err.inner.variant = "API"
              THEN LET e == result.err.inner.data
                   IN  IF /\ Len(e.validation_errors) = 1
                          /\ e.validation_errors[1].id = DomainMissingId
                       THEN Ok(FALSE)
                       ELSE Err(SchemaError(API(e)))
              ELSE Err(SchemaError(result.err.inner))
         ELSE result

----------------------------------------------------------------------------
(* The cache-keyed fetcher (lib.rs, cache_request) *)

Domains == {"d1", "d2"}
\* Utc::now().format("%Y%m%d")
Today == "20261103"
\* get_schools' cache key
SchoolsKey(date, domain) == date \o domain
Keys == {SchoolsKey(Today, d) : d \in Domains}

NoCall == [op |-> "none", ckey |-> "", post |-> FALSE, should_cache |-> FALSE]

\* What the store keeps of a text, and the text read back from it.
AsBytes(text) == [utf8 |-> TRUE, text |-> text]
from_utf8(bytes) == IF bytes.utf8 THEN Ok(bytes.text) ELSE Err([kind |-> "Utf8"])

\* cacache::read: the entry, or an error: no entry under the key, or an
\* I/O failure, whether or not there is an entry.
ReadOutcomes(st, k) ==
    (IF st[k] # None THEN {[kind |-> "hit", res |-> Ok(Unwrap(st[k]))]}
                     ELSE {[kind |-> "miss", res |-> Err("EntryNotFound")]})
    \cup {[kind |-> "ioerr", res |-> Err("Io")]}

\* A lookup that takes a hit for a miss.
LookupIgnoringHit(read) ==
    IF read.tag = "Ok" THEN Err(EmptyError) ELSE Err(CacacheError(read.err))

\* match cacache::read(&cache, &ckey).await { Ok(data) => Ok(data),
\*                                            Err(e) => Err(RequestError::Cacache(e)) }
Lookup(read) ==
    IF read.tag = "Ok" THEN Ok(read.val) ELSE Err(CacacheError(read.err))

\* A write that leaves the store as it was.
StoreAfterNoWrite(st, k, text) == st

\* cacache::write(&cache, &ckey, &data)
StoreAfterWrite(st, k, text) == [st EXCEPT ![k] = Some(AsBytes(text))]

\* The rest of the called operation, once cache_request has returned r.
Complete(r) ==
    /\ crRet' = r
    /\ gsRet' = IF call.op \in {"get_schools", "domain_exists"}
                THEN get_schools_of(r) ELSE NoResult
    /\ ret' = CASE call.op = "cache_request" -> r
                [] call.op = "get_schools" -> get_schools_of(r)
                [] call.op = "domain_exists" -> domain_exists_of(get_schools_of(r))
    /\ pc' = "done"

Begin(c) ==
    /\ pc = "idle"
    /\ call' = c
    /\ store0' = store
    /\ pc' = "xdg"
    /\ UNCHANGED <<store, lastRead, keyCalls, dataCalls, storeReads,
                   storeWrites, keyRes, fetched, crRet, gsRet, ret, prev>>
    /\ UNCHANGED pureVars

CallCacheRequest ==
    \E k \in Keys, post \in BOOLEAN, sc \in BOOLEAN :
        Begin([op |-> "cache_request", ckey |-> k, post |-> post,
               should_cache |-> sc])

CallGetSchools ==
    \E d \in Domains, sc \in BOOLEAN :
        Begin([op |-> "get_schools", ckey |-> SchoolsKey(Today, d),
               post |-> TRUE, should_cache |-> sc])

CallDomainExists ==
    \E d \in Domains, sc \in BOOLEAN :
        Begin([op |-> "domain_exists", ckey |-> SchoolsKey(Today, d),
               post |-> TRUE, should_cache |-> sc])

\* xdg::BaseDirectories::new()?.create_cache_directory(..)?
CacheDir ==
    /\ pc = "xdg"
    /\ \/ /\ pc' = IF call.should_cache THEN "read" ELSE "key"
          /\ UNCHANGED <<crRet, gsRet, ret>>
       \/ Complete(Err(BaseDirectoriesError))
       \/ Complete(Err(IOError))
    /\ UNCHANGED <<store, call, store0, lastRead, keyCalls, dataCalls,
                   storeReads, storeWrites, keyRes, fetched, prev>>
    /\ UNCHANGED pureVars

\* cacache::read(&cache, &ckey).await and the match on data
ReadCache ==
    /\ pc = "read"
    /\ \E r \in ReadOutcomes(store, call.ckey) :
          /\ lastRead' = r.kind
          /\ LET data == Lookup(r.res)
             IN  IF data.tag = "Ok"
                 THEN Complete(from_utf8(data.val))
                 ELSE pc' = "key" /\ UNCHANGED <<crRet, gsRet, ret>>
    /\ storeReads' = storeReads + 1
    /\ UNCHANGED <<store, call, store0, keyCalls, dataCalls, storeWrites,
                   keyRes, fetched, prev>>
    /\ UNCHANGED pureVars

\* pub async fn get_key: the key, a reqwest error (transport, or a status
\* that is no success), a serde error (a body that is no JSON), or the
\* panic of the unwrap (JSON without data.key).
KeyOutcomes ==
    {Ok("key"),
     Err(ReqwestError("transport")),
     Err(ReqwestError("status")),
     Err(SerdeError),
     Panic}

\* reqdata["renderKey"] = json!(get_key().await?)
GetKey ==
    /\ pc = "key"
    /\ keyCalls' = keyCalls + 1
    /\ \E k \in KeyOutcomes :
          /\ keyRes' = k
          /\ IF k.tag = "Ok"
             THEN pc' = "send" /\ UNCHANGED <<crRet, gsRet, ret>>
             ELSE Complete(k)
    /\ UNCHANGED <<store, call, store0, lastRead, dataCalls, storeReads,
                   storeWrites, fetched, prev>>
    /\ UNCHANGED pureVars

\* The data request tried once more after a transport failure.
SendRequestRetrying ==
    /\ pc = "send"
    /\ dataCalls' = dataCalls + 1
    /\ \/ \E b \in Bodies :
             /\ fetched' = Some(b)
             /\ pc' = "write"
             /\ UNCHANGED <<crRet, gsRet, ret>>
       \/ /\ dataCalls = 0
          /\ UNCHANGED <<pc, crRet, gsRet, ret, fetched>>
       \/ Complete(Err(ReqwestError("transport"))) /\ UNCHANGED fetched
       \/ Complete(Err(ReqwestError("status"))) /\ UNCHANGED fetched
    /\ UNCHANGED <<store, call, store0, lastRead, keyCalls, storeReads,
                   storeWrites, keyRes, prev>>
    /\ UNCHANGED pureVars

\* client.header(..).json(&reqdata).send().await?.error_for_status()?.text().await?
SendRequest ==
    /\ pc = "send"
    /\ dataCalls' = dataCalls + 1
    /\ \/ \E b \in Bodies :
             /\ fetched' = Some(b)
             /\ pc' = "write"
             /\ UNCHANGED <<crRet, gsRet, ret>>
       \/ Complete(Err(ReqwestError("transport"))) /\ UNCHANGED fetched
       \/ Complete(Err(ReqwestError("status"))) /\ UNCHANGED fetched
    /\ UNCHANGED <<store, call, store0, lastRead, keyCalls, storeReads,
                   storeWrites, keyRes, prev>>
    /\ UNCHANGED pureVars

\* cacache::write(&cache, &ckey, &data).await?; Ok(data)
WriteCache ==
    /\ pc = "write"
    /\ storeWrites' = storeWrites + 1
    /\ \/ /\ store' = StoreAfterWrite(store, call.ckey, Unwrap(fetched))
          /\ Complete(Ok(Unwrap(fetched)))
       \/ /\ Complete(Err(CacacheError("Io")))
          /\ UNCHANGED store
    /\ UNCHANGED <<call, store0, lastRead, keyCalls, dataCalls, storeReads,
                   keyRes, fetched, prev>>
    /\ UNCHANGED pureVars

\* The operation has returned; the next call starts afresh.
Return ==
    /\ pc = "done"
    /\ pc' = "idle"
    /\ prev' = IF call.should_cache /\ lastRead = "hit" /\ crRet.tag = "Ok"
               THEN Some([ckey |-> call.ckey, crRet |-> crRet])
               ELSE None
    /\ call' = NoCall
    /\ store0' = store
    /\ lastRead' = "none"
    /\ keyCalls' = 0
    /\ dataCalls' = 0
    /\ storeReads' = 0
    /\ storeWrites' = 0
    /\ keyRes' = NoResult
    /\ fetched' = None
    /\ crRet' = NoResult
    /\ gsRet' = NoResult
    /\ ret' = NoResult
    /\ UNCHANGED store
    /\ UNCHANGED pureVars

CacheInit ==
    /\ store = [k \in Keys |-> None]
    /\ pc = "idle"
    /\ call = NoCall
    /\ store0 = [k \in Keys |-> None]
    /\ lastRead = "none"
    /\ keyCalls = 0
    /\ dataCalls = 0
    /\ storeReads = 0
    /\ storeWrites = 0
    /\ keyRes = NoResult
    /\ fetched = None
    /\ crRet = NoResult
    /\ gsRet = NoResult
    /\ ret = NoResult
    /\ prev = None

----------------------------------------------------------------------------
(* The specification of the fetcher and the query layer *)

UnwrapOff == uIn = NoResult /\ uOut = NoResult
ColorOff == cIn = <<>> /\ cOut = NoResult
DimOff == dIn = <<>> /\ dOut = NoResult
BoxOff == bIn = NoResult /\ bOut = NoResult
SvgOff == sIn = NoResult /\ sOut = NoResult
SchemaOff == qIn = <<>> /\ qStore = <<>> /\ qOut = <<>>

Init == CacheInit /\ UnwrapOff /\ ColorOff /\ DimOff /\ BoxOff /\ SvgOff /\ SchemaOff

Next ==
    \/ CallCacheRequest
    \/ CallGetSchools
    \/ CallDomainExists
    \/ CacheDir
    \/ ReadCache
    \/ GetKey
    \/ SendRequest
    \/ WriteCache
    \/ Return

Spec == Init /\ [][Next]_vars

----------------------------------------------------------------------------
(* The fetcher's claims *)

Hit == call.should_cache /\ lastRead = "hit"
StoredText(st, k) == Unwrap(st[k]).text

\* C1: a cache_request call with should_cache = false that returns a body
\* has issued exactly one data request, and whatever it returns it has
\* neither read nor written the cache store: the store is as it was when
\* the call began.
C1_BypassLeavesStoreAlone ==
    (pc = "done" /\ ~call.should_cache) =>
        /\ crRet.tag = "Ok" => dataCalls = 1
        /\ storeReads = 0
        /\ storeWrites = 0
        /\ store = store0

\* C2: with should_cache = true, once the lookup has failed with an I/O
\* error the call issues no network request, and it returns the cache
\* store's failure.
C2_LookupFailureIsReturned ==
    (call.should_cache /\ lastRead = "ioerr") =>
        /\ keyCalls = 0
        /\ dataCalls = 0
        /\ pc = "done" => crRet = Err(CacacheError("Io"))

\* C3: with should_cache = true, a call whose lookup finds bytes stored
\* under the cache key returns exactly those bytes, asks for no render key,
\* issues no data request and writes nothing to the store; when the
\* previous call hit the same key too, both returned the same bytes.
C3_HitReturnsStoredBytes ==
    (pc = "done" /\ Hit) =>
        /\ store0[call.ckey] # None
        /\ crRet = Ok(StoredText(store0, call.ckey))
        /\ keyCalls = 0
        /\ dataCalls = 0
        /\ storeWrites = 0
        /\ store = store0
        /\ \A p \in prev : p.ckey = call.ckey => crRet = p.crRet

\* C3's case: the second of two hits on one key, for get_schools.
C3_Witness ==
    /\ pc = "done"
    /\ Hit
    /\ call.op = "get_schools"
    /\ \E p \in prev : p.ckey = call.ckey
    /\ crRet.tag = "Ok"

\* C4: with should_cache = true, a call whose lookup does not hit and that
\* returns Ok(body) has written body under the cache key, once: the store
\* holds exactly body there when the call returns, whatever the caller's
\* decoding and unwrapping of body then give.
C4_MissWritesThrough ==
    (pc = "done" /\ call.should_cache /\ lastRead # "hit" /\ crRet.tag = "Ok") =>
        /\ store[call.ckey] = Some(AsBytes(crRet.val))
        /\ storeWrites = 1
        /\ dataCalls = 1

\* C4's case: get_schools misses, fetches text that is no JSON, fails to
\* decode it, and the text is in the store.
C4_Witness ==
    /\ pc = "done"
    /\ call.op = "get_schools"
    /\ call.should_cache
    /\ lastRead = "miss"
    /\ crRet = Ok(NotJson)
    /\ ret = Err(SerdeError)
    /\ store[call.ckey] = Some(AsBytes(NotJson))

----------------------------------------------------------------------------
(* domain_exists' claim *)

\* The failure domain_exists reads as "no such domain": an API failure whose
\* only validation error has id 1.
SoleDomainMissing(g) ==
    /\ g.tag = "Err"
    /\ g.err.kind = "Schema"
    /\ g.err.inner.variant = "API"
    /\ Len(g.err.inner.data.validation_errors) = 1
    /\ g.err.inner.data.validation_errors[1].id = DomainMissingId

\* C6: domain_exists returns Ok(true) when get_schools succeeds, Ok(false)
\* exactly when get_schools fails with an API failure whose validation
\* errors are one error of id 1, and otherwise what get_schools returned.
C6_DomainExistsClassifies ==
    (pc = "done" /\ call.op = "domain_exists") =>
        /\ gsRet.tag = "Ok" => ret = Ok(TRUE)
        /\ (ret.tag = "Ok" /\ ret.val = FALSE) <=> SoleDomainMissing(gsRet)
        /\ (gsRet.tag # "Ok" /\ ~SoleDomainMissing(gsRet)) => ret = gsRet

\* C6's case: two validation errors, the first of id 1.
C6_Witness ==
    /\ pc = "done"
    /\ call.op = "domain_exists"
    /\ gsRet = Err(SchemaError(API(ErrorData(
                 <<ValidationError(DomainMissingId),
                   ValidationError(DomainMissingId + 1)>>))))
    /\ ret = gsRet

----------------------------------------------------------------------------
(* Envelope unwrapping on its own *)

Payloads == {DefaultDomainInfo, DomainInfo("d1", <<School("u1", "s1")>>)}

Envelopes ==
    [error : JValues,
     data : {Success(x) : x \in Payloads}
            \cup {Failure([errors |-> e, validation_errors |-> l]) :
                    e \in JValues, l \in VerrLists},
     exception : JValues,
     validation : {<<>>, <<"v">>},
     session_expires : JValues,
     need_session_refresh : BOOLEAN]

UnwrapInit == uIn \in Envelopes /\ uOut = NoResult

TryFrom ==
    /\ uOut = NoResult
    /\ uOut' = try_from(uIn)
    /\ UNCHANGED <<uIn, cacheVars, colorVars, dimVars, boxVars, svgVars, schemaVars>>

CacheOff == CacheInit

InitUnwrap == UnwrapInit /\ CacheOff /\ ColorOff /\ DimOff /\ BoxOff /\ SvgOff /\ SchemaOff

NextUnwrap == TryFrom

SpecUnwrap == InitUnwrap /\ [][NextUnwrap]_vars

\* C5: unwrapping gives RootError when the root error field is not null,
\* whatever the data; else, for success data, Ok with that payload and the
\* input's error, exception, validation, sessionExpires and
\* needSessionRefresh; else ApiError with the failure payload's validation
\* errors in their order.  No other payload is ever returned.
C5_UnwrapIsDetermined ==
    uOut # NoResult =>
        /\ ~is_null(uIn.error) => uOut = Err(APIRoot)
        /\ (is_null(uIn.error) /\ uIn.data.variant = "Success") =>
              /\ uOut.tag = "Ok"
              /\ uOut.val.data = uIn.data.x
              /\ uOut.val.error = uIn.error
              /\ uOut.val.exception = uIn.exception
              /\ uOut.val.validation = uIn.validation
              /\ uOut.val.session_expires = uIn.session_expires
              /\ uOut.val.need_session_refresh = uIn.need_session_refresh
        /\ (is_null(uIn.error) /\ uIn.data.variant = "Failure") =>
              /\ uOut.tag = "Err"
              /\ uOut.err.variant = "API"
              /\ uOut.err.data.validation_errors = uIn.data.e.validation_errors
        /\ uOut.tag = "Ok" => uIn.data.variant = "Success"

\* C5's case: a root error over success data.
C5_Witness ==
    /\ uOut = Err(APIRoot)
    /\ ~is_null(uIn.error)
    /\ uIn.data.variant = "Success"

----------------------------------------------------------------------------
(* Integer parsing (core::num), as Rgb::from_str and Dimensions::from_str
   use it *)

DecDigits == <<"0", "1", "2", "3", "4", "5", "6", "7", "8", "9">>
LowerHex == <<"a", "b", "c", "d", "e", "f">>
UpperHex == <<"A", "B", "C", "D", "E", "F">>

IndexOf(seq, c) == CHOOSE i \in DOMAIN seq : seq[i] = c
InSeq(seq, c) == \E i \in DOMAIN seq : seq[i] = c

\* char::to_digit(radix): Some(value) or None
to_digit(c, radix) ==
    LET v == IF InSeq(DecDigits, c) THEN Some(IndexOf(DecDigits, c) - 1)
             ELSE IF InSeq(LowerHex, c) THEN Some(IndexOf(LowerHex, c) + 9)
             ELSE IF InSeq(UpperHex, c) THEN Some(IndexOf(UpperHex, c) + 9)
             ELSE None
    IN  IF v # None /\ Unwrap(v) < radix THEN v ELSE None

\* The digit loop of from_str_radix: left to right, failing at the first
\* character that is no digit or the first value above max.
RECURSIVE ParseDigits(_, _, _, _)
ParseDigits(digits, acc, radix, max) ==
    IF digits = <<>>
    THEN Ok(acc)
    ELSE LET d == to_digit(Head(digits), radix)
         IN  IF d = None
             THEN Err([kind |-> "InvalidDigit"])
             ELSE IF acc * radix + Unwrap(d) > max
                  THEN Err([kind |-> "PosOverflow"])
                  ELSE ParseDigits(Tail(digits), acc * radix + Unwrap(d),
                                   radix, max)

\* The start of from_str_radix for an unsigned type: a leading '+' is
\* dropped, a '-' is a character like any other, and an empty string or a
\* sign alone is no number.
StripSign(src) ==
    IF src = <<>>
    THEN Err([kind |-> "Empty"])
    ELSE IF Len(src) = 1 /\ src[1] \in {"+", "-"}
         THEN Err([kind |-> "InvalidDigit"])
         ELSE Ok(IF src[1] = "+" THEN Tail(src) ELSE src)

\* u8::from_str_radix(src, radix)
U8Max == 255
u8_from_str_radix(src, radix) ==
    LET digits == StripSign(src)
    IN  IF digits.tag = "Err" THEN digits
        ELSE ParseDigits(digits.val, 0, radix, U8Max)

\* A u32 is kept as its decimal numeral without leading zeros: the values
\* of the type go beyond the integers of the model checker.
RECURSIVE StripZeros(_)
StripZeros(ds) ==
    IF Len(ds) > 1 /\ Head(ds) = "0" THEN StripZeros(Tail(ds)) ELSE ds

RECURSIVE LexLeq(_, _)
LexLeq(a, b) ==
    IF a = <<>> THEN TRUE
    ELSE IF Head(a) # Head(b)
         THEN IndexOf(DecDigits, Head(a)) < IndexOf(DecDigits, Head(b))
         ELSE LexLeq(Tail(a), Tail(b))

NumeralLeq(a, b) == Len(a) < Len(b) \/ (Len(a) = Len(b) /\ LexLeq(a, b))

\* u32::MAX, 4294967295
U32MaxNumeral == <<"4", "2", "9", "4", "9", "6", "7", "2", "9", "5">>

\* The digit loop for u32, radix 10.
RECURSIVE ParseDigitsU32(_, _)
ParseDigitsU32(digits, acc) ==
    IF digits = <<>>
    THEN Ok(acc)
    ELSE IF to_digit(Head(digits), 10) = None
         THEN Err([kind |-> "InvalidDigit"])
         ELSE LET next == StripZeros(Append(acc, Head(digits)))
              IN  IF ~NumeralLeq(next, U32MaxNumeral)
                  THEN Err([kind |-> "PosOverflow"])
                  ELSE ParseDigitsU32(Tail(digits), next)

\* str::parse::<u32>()
parse_u32(src) ==
    LET digits == StripSign(src)
    IN  IF digits.tag = "Err" THEN digits
        ELSE ParseDigitsU32(digits.val, <<>>)

----------------------------------------------------------------------------
(* Rgb::from_str (image.rs) *)

\* &s[from..to] over bytes: the slice, or a panic when to is past the end.
Slice(s, from, to) ==
    IF to > Len(s) THEN Panic ELSE Ok(SubSeq(s, from + 1, to))

\* One channel: the slice, then u8::from_str_radix(.., 16).
Channel(s, from, to) ==
    LET sl == Slice(s, from, to)
    IN  IF sl.tag = "Panic" THEN Panic ELSE u8_from_str_radix(sl.val, 16)

\* impl FromStr for Rgb: r, g and b in turn, each `?` returning its error.
Rgb_from_str(hex_code) ==
    LET r == Channel(hex_code, 1, 3)
    IN  IF r.tag # "Ok" THEN r
        ELSE LET g == Channel(hex_code, 3, 5)
             IN  IF g.tag # "Ok" THEN g
                 ELSE LET b == Channel(hex_code, 5, 7)
                      IN  IF b.tag # "Ok" THEN b
                          ELSE Ok([r |-> r.val, g |-> g.val, b |-> b.val])

\* The longest colour string tried, and the characters it is made of: the
\* '#', a hex digit, a letter that is no hex digit, and a sign.
MaxColorLen == 8
ColorChars == {"#", "a", "g", "+"}
ColorSamples == {<<"#", "1", "a", "2", "b", "3", "c">>,
                 <<"#", "1", "A", "2", "B", "3", "C">>,
                 <<"#", "-", "1", "2", "b", "3", "c">>}

ColorInit ==
    /\ cIn \in SeqsUpTo(ColorChars, MaxColorLen) \cup ColorSamples
    /\ cOut = NoResult

ParseColor ==
    /\ cOut = NoResult
    /\ cOut' = Rgb_from_str(cIn)
    /\ UNCHANGED <<cIn, cacheVars, unwrapVars, dimVars, boxVars, svgVars, schemaVars>>

InitColor == ColorInit /\ CacheOff /\ UnwrapOff /\ DimOff /\ BoxOff /\ SvgOff /\ SchemaOff
NextColor == ParseColor
SpecColor == InitColor /\ [][NextColor]_vars

\* A colour as the claim has it: 7 characters, '#', six hex digits.
IsHexDigit(c) == InSeq(DecDigits, c) \/ InSeq(LowerHex, c) \/ InSeq(UpperHex, c)
HexValue(c) == Unwrap(to_digit(c, 16))
WellFormedColor(s) ==
    /\ Len(s) = 7
    /\ s[1] = "#"
    /\ \A i \in 2..7 : IsHexDigit(s[i])

\* C7: Rgb::from_str succeeds only for a string of 7 characters, a '#' and
\* three channels of two hex digits, with those channel values; every other
\* string gives a parse failure as a value.
C7_ColorParsesOnlyHashRRGGBB ==
    cOut # NoResult =>
        IF WellFormedColor(cIn)
        THEN cOut = Ok([r |-> 16 * HexValue(cIn[2]) + HexValue(cIn[3]),
                        g |-> 16 * HexValue(cIn[4]) + HexValue(cIn[5]),
                        b |-> 16 * HexValue(cIn[6]) + HexValue(cIn[7])])
        ELSE cOut.tag = "Err"

----------------------------------------------------------------------------
(* Dimensions::from_str (lib.rs) *)

\* s.split('x'): the pieces between the separators, at least one.
RECURSIVE Split(_, _, _)
Split(s, sep, piece) ==
    IF s = <<>>
    THEN <<piece>>
    ELSE IF Head(s) = sep
         THEN <<piece>> \o Split(Tail(s), sep, <<>>)
         ELSE Split(Tail(s), sep, Append(piece, Head(s)))

ParseDimensionError == [kind |-> "ParseDimension"]

\* split.next().ok_or(ParseDimensionError)?.parse()?  for the n-th piece
DimensionField(split, n) ==
    IF n > Len(split)
    THEN Err(ParseDimensionError)
    ELSE LET v == parse_u32(split[n])
         IN  IF v.tag = "Err" THEN Err(ParseDimensionError) ELSE v

\* impl FromStr for Dimensions
Dimensions_from_str(s) ==
    LET split == Split(s, "x", <<>>)
        width == DimensionField(split, 1)
    IN  IF width.tag = "Err" THEN width
        ELSE LET height == DimensionField(split, 2)
             IN  IF height.tag = "Err" THEN height
                 ELSE Ok([width |-> width.val, height |-> height.val])

\* The longest dimension string tried, and its characters.
MaxDimLen == 5
DimChars == {"0", "8", "x", "a", "+"}
DimSamples == {<<"8", "0", "0", "x", "6", "0", "0">>,
               <<"a", "b", "c", "x", "d", "e", "f">>,
               <<"4", "2", "9", "4", "9", "6", "7", "2", "9", "6", "x", "1">>,
               <<"4", "2", "9", "4", "9", "6", "7", "2", "9", "5", "x", "1">>}

DimInit ==
    /\ dIn \in SeqsUpTo(DimChars, MaxDimLen) \cup DimSamples
    /\ dOut = NoResult

ParseDimensions ==
    /\ dOut = NoResult
    /\ dOut' = Dimensions_from_str(dIn)
    /\ UNCHANGED <<dIn, cacheVars, unwrapVars, colorVars, boxVars, svgVars, schemaVars>>

InitDim == DimInit /\ CacheOff /\ UnwrapOff /\ ColorOff /\ BoxOff /\ SvgOff /\ SchemaOff
NextDim == ParseDimensions
SpecDim == InitDim /\ [][NextDim]_vars

\* A positive integer as u32 reads one: decimal digits, after a '+' or
\* not, of a value in 1..u32::MAX.  Numeral(s) is its value.
Unsigned(s) == IF s # <<>> /\ s[1] = "+" THEN Tail(s) ELSE s
Numeral(s) == StripZeros(Unsigned(s))
IsPositiveInteger(s) ==
    /\ Unsigned(s) # <<>>
    /\ \A i \in DOMAIN Unsigned(s) : InSeq(DecDigits, Unsigned(s)[i])
    /\ Numeral(s) # <<"0">>
    /\ NumeralLeq(Numeral(s), U32MaxNumeral)

\* The pieces of a string of the form <width>x<height>.
WellFormedDim(s) ==
    LET parts == Split(s, "x", <<>>)
    IN  /\ Len(parts) = 2
        /\ IsPositiveInteger(parts[1])
        /\ IsPositiveInteger(parts[2])

\* C8: Dimensions::from_str accepts a string only of the form
\* <width>x<height>, both positive integers, and returns those two values;
\* every other string is rejected with ParseDimensionError.
C8_DimensionsParseOnlyWxH ==
    dOut # NoResult =>
        IF WellFormedDim(dIn)
        THEN LET parts == Split(dIn, "x", <<>>)
             IN  dOut = Ok([width |-> Numeral(parts[1]),
                            height |-> Numeral(parts[2])])
        ELSE dOut = Err(ParseDimensionError)

----------------------------------------------------------------------------
(* Schema elements (data.rs) *)

\* struct Box
Box(id, x, width, f_color, type_field, lesson_guids) ==
    [x |-> x, y |-> 0, width |-> width, height |-> 0,
     b_color |-> <<"#", "f", "f", "f", "f", "f", "f">>, f_color |-> f_color,
     id |-> id, parent_id |-> None, type_field |-> type_field,
     lesson_guids |-> lesson_guids]

\* Box::default()
DefaultBox ==
    [x |-> 0, y |-> 0, width |-> 0, height |-> 0,
     b_color |-> <<>>, f_color |-> <<>>,
     id |-> 0, parent_id |-> None, type_field |-> "",
     lesson_guids |-> None]

\* struct LessonInfo; block_name stands for the fields add_box_info
\* does not look at.
LessonInfo(guid_id, block_name, block) ==
    [guid_id |-> guid_id, block_name |-> block_name, block |-> block]

Black == <<"#", "0", "0", "0", "0", "0", "0">>

\* All sequences of length up to n over S, as functions on 1..k.
ListsUpTo(S, n) == UNION {[1..k -> S] : k \in 0..n}

----------------------------------------------------------------------------
(* add_box_info (lib.rs) *)

\* for k in 0..lesson_guids.len(): a matching guid assigns the box.
RECURSIVE GuidLoop(_, _, _, _)
GuidLoop(block, lesson, box, k) ==
    LET guids == Unwrap(box.lesson_guids)
    IN  IF k > Len(guids)
        THEN block
        ELSE GuidLoop(IF lesson.guid_id = guids[k] THEN box ELSE block,
                      lesson, box, k + 1)

\* for j in 0..box_list.len(): boxes of another type are skipped, and the
\* unwrap of a Lesson box without guids panics.
RECURSIVE BoxLoop(_, _, _, _)
BoxLoop(block, lesson, box_list, j) ==
    IF j > Len(box_list)
    THEN Ok(block)
    ELSE IF box_list[j].type_field # "Lesson"
         THEN BoxLoop(block, lesson, box_list, j + 1)
         ELSE IF box_list[j].lesson_guids = None
              THEN Panic
              ELSE BoxLoop(GuidLoop(block, lesson, box_list[j], 1),
                           lesson, box_list, j + 1)

\* The box loop leaving at the first box that matches.
RECURSIVE FirstMatch(_, _, _)
FirstMatch(lesson, box_list, j) ==
    IF j > Len(box_list)
    THEN Ok(lesson.block)
    ELSE IF box_list[j].type_field # "Lesson"
         THEN FirstMatch(lesson, box_list, j + 1)
         ELSE IF box_list[j].lesson_guids = None
              THEN Panic
              ELSE IF GuidLoop(lesson.block, lesson, box_list[j], 1) # lesson.block
                   THEN Ok(box_list[j])
                   ELSE FirstMatch(lesson, box_list, j + 1)
BlockOfLessonFirstMatch(lesson, box_list) == FirstMatch(lesson, box_list, 1)

\* The block of one lesson: lesson_info[i].block after the loops over j, k.
BlockOfLesson(lesson, box_list) == BoxLoop(lesson.block, lesson, box_list, 1)

\* fn add_box_info(data: &Schema)
add_box_info(data) ==
    IF \E i \in DOMAIN data.lesson_info :
           BlockOfLesson(data.lesson_info[i], data.box_list) = Panic
    THEN Panic
    ELSE Ok([i \in DOMAIN data.lesson_info |->
                [data.lesson_info[i] EXCEPT
                    !.block = BlockOfLesson(data.lesson_info[i],
                                            data.box_list).val]])

\* The most boxes and lesson records of a schema.
MaxBoxes == 2
MaxLessons == 2

\* The guids the boxes list, and the guids of the lessons: one more, which
\* no box lists.
BoxGuids == {"g1", "g2"}
LessonGuids == BoxGuids \cup {"g9"}
GuidLists == {<<>>, <<"g1">>, <<"g2">>, <<"g1", "g2">>}

\* A box before its place in the list gives it its id.  A Lesson box
\* carries its guids (data model: present when type is "Lesson"); a box of
\* another type may carry some or none.
BoxKinds ==
    {[type_field |-> "Lesson", lesson_guids |-> Some(l)] : l \in GuidLists}
    \cup {[type_field |-> "Footer", lesson_guids |-> None],
          [type_field |-> "Footer", lesson_guids |-> Some(<<"g1">>)]}

LessonBoxLists ==
    {[j \in DOMAIN ks |-> Box(j, 10 * j, 100, Black, ks[j].type_field,
                              ks[j].lesson_guids)] :
        ks \in ListsUpTo(BoxKinds, MaxBoxes)}

\* A block a record may carry on input besides the default.
PresetBox == Box(77, 7, 7, Black, "Lesson", Some(<<"g9">>))

LessonKinds ==
    {LessonInfo(g, "name", b) : g \in LessonGuids, b \in {DefaultBox, PresetBox}}

BoxInit ==
    /\ bIn \in [lesson_info : ListsUpTo(LessonKinds, MaxLessons),
                box_list : LessonBoxLists]
    /\ bOut = NoResult

AddBoxInfo ==
    /\ bOut = NoResult
    /\ bOut' = add_box_info(bIn)
    /\ UNCHANGED <<bIn, cacheVars, unwrapVars, colorVars, dimVars, svgVars, schemaVars>>

InitBox == BoxInit /\ CacheOff /\ UnwrapOff /\ ColorOff /\ DimOff /\ SvgOff /\ SchemaOff
NextBox == AddBoxInfo
SpecBox == InitBox /\ [][NextBox]_vars

\* The places of the Lesson boxes that list the guid.
Range(f) == {f[i] : i \in DOMAIN f}
MatchingBoxes(guid, box_list) ==
    {j \in DOMAIN box_list :
        /\ box_list[j].type_field = "Lesson"
        /\ box_list[j].lesson_guids # None
        /\ guid \in Range(Unwrap(box_list[j].lesson_guids))}
Last(S) == CHOOSE j \in S : \A k \in S : k <= j
First(S) == CHOOSE j \in S : \A k \in S : j <= k

\* C9: add_box_info returns one record per input record, in order; each
\* record's block is the last box of type "Lesson" that lists the record's
\* guidId, or the block it had when no such box exists; its other fields
\* are unchanged.
C9_LastMatchingLessonBoxWins ==
    bOut # NoResult =>
        /\ bOut.tag = "Ok"
        /\ Len(bOut.val) = Len(bIn.lesson_info)
        /\ \A i \in DOMAIN bIn.lesson_info :
              LET in == bIn.lesson_info[i]
                  out == bOut.val[i]
                  m == MatchingBoxes(in.guid_id, bIn.box_list)
              IN  /\ out.guid_id = in.guid_id
                  /\ out.block_name = in.block_name
                  /\ out.block = IF m = {} THEN in.block
                                 ELSE bIn.box_list[Last(m)]

\* C9's case: two Lesson boxes list the first record's guid, a second record
\* has no box.
C9_Witness ==
    /\ bOut # NoResult
    /\ Len(bIn.lesson_info) = 2
    /\ Cardinality(MatchingBoxes(bIn.lesson_info[1].guid_id, bIn.box_list)) = 2
    /\ bOut.val[1].block = bIn.box_list[2]
    /\ MatchingBoxes(bIn.lesson_info[2].guid_id, bIn.box_list) = {}
    /\ bOut.val[2].block = DefaultBox

----------------------------------------------------------------------------
(* generate_svg (image.rs) *)

\* struct Text.  fontsize is an f64; the model keeps twice its value, so
\* that 12.5 is 25.
Text(id, x, y, f_color, fontsize2, text, parent_id, type_field) ==
    [x |-> x, y |-> y, f_color |-> f_color, fontsize2 |-> fontsize2,
     text |-> text, bold |-> FALSE, italic |-> FALSE, id |-> id,
     parent_id |-> parent_id, type_field |-> type_field]

\* i64 division: the quotient rounded towards zero (b > 0).
TruncDiv(a, b) == IF a >= 0 THEN a \div b ELSE -((-a) \div b)

\* txt.fontsize as i64: the fraction is dropped.
FontsizeAsI64(txt) == TruncDiv(txt.fontsize2, 2)

\* str::len(): the length in bytes of the UTF-8 encoding.  "a_ring" stands
\* for the one character U+00E5, which takes two bytes.
Utf8Len(c) == IF c = "a_ring" THEN 2 ELSE 1
RECURSIVE StrLen(_)
StrLen(str) == IF str = <<>> THEN 0 ELSE Utf8Len(Head(str)) + StrLen(Tail(str))

\* fn rect_style: the two colours in turn, each '?' returning its error.
rect_style(rect) ==
    LET stroke_width ==
            IF rect.type_field \in {"Footer", "ClockFrameStart", "ClockFrameEnd"}
            THEN 0 ELSE 1
        cursor_pointer == rect.type_field = "Lesson"
        fg == Rgb_from_str(rect.f_color)
    IN  IF fg.tag # "Ok" THEN fg
        ELSE LET bg == Rgb_from_str(rect.b_color)
             IN  IF bg.tag # "Ok" THEN bg
                 ELSE Ok([fill |-> bg.val, stroke |-> fg.val,
                          stroke_width |-> stroke_width,
                          cursor_pointer |-> cursor_pointer])

\* fn text_style
text_style(txt) ==
    LET color == Rgb_from_str(txt.f_color)
    IN  IF color.tag # "Ok" THEN color
        ELSE Ok([fill |-> color.val, font_size2 |-> txt.fontsize2])

\* The centred x over the parent box.
Centred(txt, rect) ==
    rect.x + TruncDiv(rect.width, 2)
        - TruncDiv(StrLen(txt.text) * FontsizeAsI64(txt), 4)

\* The loop over the boxes without its break: the last box of the id wins.
RECURSIVE LastParentLoop(_, _, _, _)
LastParentLoop(x, txt, box_list, j) ==
    IF j > Len(box_list)
    THEN x
    ELSE LastParentLoop(IF box_list[j].id = txt.parent_id
                        THEN Centred(txt, box_list[j]) ELSE x,
                        txt, box_list, j + 1)
x_coord_last_parent(txt, box_list) ==
    IF txt.type_field \in {"ClockAxisBox", "HeadingDay"}
    THEN LastParentLoop(txt.x, txt, box_list, 1)
    ELSE txt.x

\* for rect in &schema_data.box_list { if rect.id == txt.parent_id { x = ..; break } }
RECURSIVE ParentLoop(_, _, _)
ParentLoop(txt, box_list, j) ==
    IF j > Len(box_list)
    THEN txt.x
    ELSE IF box_list[j].id = txt.parent_id
         THEN Centred(txt, box_list[j])
         ELSE ParentLoop(txt, box_list, j + 1)

\* let x_coord = match txt.type_field.as_str() { .. }
x_coord(txt, box_list) ==
    IF txt.type_field \in {"ClockAxisBox", "HeadingDay"}
    THEN ParentLoop(txt, box_list, 1)
    ELSE txt.x

\* The rectangle of a box, and the text element of a text.
RectElement(rect, style) ==
    [x |-> rect.x, y |-> rect.y, width |-> rect.width, height |-> rect.height,
     box_id |-> rect.id, box_type |-> rect.type_field, style |-> style,
     focusable |-> rect.type_field = "Lesson"]
TextElement(txt, style, box_list) ==
    [x |-> x_coord(txt, box_list), y |-> txt.y + FontsizeAsI64(txt),
     text_id |-> txt.id, style |-> style, text |-> txt.text]

\* The first element whose style is no Ok, if any: where the '?' returns.
FirstFailure(styles) ==
    IF \E i \in DOMAIN styles : styles[i].tag # "Ok"
    THEN Some(styles[First({i \in DOMAIN styles : styles[i].tag # "Ok"})])
    ELSE None

\* pub fn generate_svg: the boxes, then the texts; the first colour that
\* fails to parse ends the call.  The lines, added last, cannot fail and
\* change no text; the document is kept as its rectangles and texts.
generate_svg(schema_data) ==
    LET rect_styles == [j \in DOMAIN schema_data.box_list |->
                            rect_style(schema_data.box_list[j])]
        text_styles == [t \in DOMAIN schema_data.text_list |->
                            text_style(schema_data.text_list[t])]
    IN  IF FirstFailure(rect_styles) # None
        THEN Unwrap(FirstFailure(rect_styles))
        ELSE IF FirstFailure(text_styles) # None
             THEN Unwrap(FirstFailure(text_styles))
             ELSE Ok([rects |-> [j \in DOMAIN schema_data.box_list |->
                                    RectElement(schema_data.box_list[j],
                                                rect_styles[j].val)],
                      texts |-> [t \in DOMAIN schema_data.text_list |->
                                    TextElement(schema_data.text_list[t],
                                                text_styles[t].val,
                                                schema_data.box_list)]])

\* The most boxes and texts of a rendered schema.
MaxRects == 2
MaxTexts == 1

NoHex == <<"#", "g", "g", "g", "g", "g", "g">>
TooShort == <<"#", "a", "a">>

\* Boxes of ids 1 and 2, of an even and an odd width, and two boxes whose
\* border colour does not parse.
RectKinds ==
    {Box(1, 0, 100, Black, "HeadingDay", None),
     Box(2, 0, 100, Black, "Lesson", Some(<<"g1">>)),
     Box(1, -3, 7, Black, "ClockAxisBox", None),
     Box(2, -3, 7, Black, "Footer", None),
     Box(1, 0, 100, NoHex, "HeadingDay", None),
     Box(1, 0, 100, TooShort, "HeadingDay", None)}

\* Texts of each layout kind, with and without a parent among the boxes,
\* of a whole and a fractional font size, and one whose colour does not
\* parse.
TextStrings == {<<"M", "o", "n">>, <<"M", "a_ring", "n", "d", "a", "g">>}
TextKinds ==
    {Text(5, 1, 10, Black, f, str, p, ty) :
        f \in {40, 25}, str \in TextStrings, p \in {1, 9},
        ty \in {"HeadingDay", "ClockAxisBox", "Lesson"}}
    \cup {Text(5, 1, 10, NoHex, 40, <<"M", "o", "n">>, 1, "HeadingDay")}

SvgInit ==
    /\ sIn \in [box_list : ListsUpTo(RectKinds, MaxRects),
                text_list : ListsUpTo(TextKinds, MaxTexts)]
    /\ sOut = NoResult

GenerateSvg ==
    /\ sOut = NoResult
    /\ sOut' = generate_svg(sIn)
    /\ UNCHANGED <<sIn, cacheVars, unwrapVars, colorVars, dimVars, boxVars, schemaVars>>

InitSvg == SvgInit /\ CacheOff /\ UnwrapOff /\ ColorOff /\ DimOff /\ BoxOff /\ SchemaOff
NextSvg == GenerateSvg
SpecSvg == InitSvg /\ [][NextSvg]_vars

\* floor(fontsize), fontsize being half of fontsize2.
FloorFontsize(txt) == txt.fontsize2 \div 2

\* The boxes whose id is the text's parentId.
Parents(txt, box_list) == {j \in DOMAIN box_list : box_list[j].id = txt.parent_id}

\* C10: a rendered text of type ClockAxisBox or HeadingDay with a box of
\* its parentId has x = box.x + box.width/2 - (text.len * floor(fontsize))/4
\* for the first such box, the text's length being that of str::len (bytes);
\* any other text has its own x; y is always y + floor(fontsize).
C10_TextPosition ==
    (sOut # NoResult /\ sOut.tag = "Ok") =>
        /\ Len(sOut.val.texts) = Len(sIn.text_list)
        /\ \A t \in DOMAIN sIn.text_list :
              LET txt == sIn.text_list[t]
                  p == Parents(txt, sIn.box_list)
                  centred == txt.type_field \in {"ClockAxisBox", "HeadingDay"}
                             /\ p # {}
                  box == sIn.box_list[First(p)]
              IN  /\ sOut.val.texts[t].x =
                        IF centred
                        THEN box.x + (box.width \div 2)
                             - ((StrLen(txt.text) * FloorFontsize(txt)) \div 4)
                        ELSE txt.x
                  /\ sOut.val.texts[t].y = txt.y + FloorFontsize(txt)

\* C10's case: the text "Mon" of font size 20 over a box at x 0 of width
\* 100, which is the first of two boxes of its parentId: x is 35.
C10_Witness ==
    /\ sOut # NoResult
    /\ sOut.tag = "Ok"
    /\ Len(sIn.box_list) = 2
    /\ sIn.box_list[1] = Box(1, 0, 100, Black, "HeadingDay", None)
    /\ sIn.box_list[2] = Box(1, -3, 7, Black, "ClockAxisBox", None)
    /\ Len(sIn.text_list) = 1
    /\ sIn.text_list[1] = Text(5, 1, 10, Black, 40, <<"M", "o", "n">>, 1, "HeadingDay")
    /\ sOut.val.texts[1].x = 35
    /\ sOut.val.texts[1].y = 30

\* ---------------------------------------------------------------------
\* The network path of cache_request: render key, then one data request.
\* ---------------------------------------------------------------------

\* The call has failed in reqwest: in get_key or in the data request.
ReqwestFailure(r) == r.tag = "Err" /\ r.err.kind = "Reqwest"

NetworkPathState ==
    \* at most one render-key call and one data request per call
    /\ keyCalls <= 1
    /\ dataCalls <= 1
    \* a data request was issued only with the render key in hand
    /\ dataCalls = 1 => keyRes.tag = "Ok"
    \* a failed get_key is the result of the call, which sends no data
    \* request and writes nothing
    /\ keyRes.tag \in {"Err", "Panic"} =>
          /\ pc = "done"
          /\ crRet = keyRes
          /\ dataCalls = 0
          /\ storeWrites = 0
          /\ store = store0
    \* a data request that brought no body back ends the call with the
    \* reqwest error, and nothing is written
    /\ (pc = "done" /\ dataCalls = 1 /\ fetched = None) =>
          /\ ReqwestFailure(crRet)
          /\ storeWrites = 0
          /\ store = store0
    \* whichever of the two failed, the store is as the call found it
    /\ (pc = "done" /\ ReqwestFailure(crRet)) =>
          /\ storeWrites = 0
          /\ store = store0

\* The data request is issued by a step that starts with the render key
\* obtained and no data request sent yet.
DataRequestAfterKey ==
    dataCalls' > dataCalls =>
        /\ keyRes.tag = "Ok"
        /\ keyCalls = 1
        /\ dataCalls = 0

\* C11: on the network path of cache_request the render key is obtained
\* before the data request is issued and at most one data request is issued
\* per call; when get_key fails no data request is issued; when get_key or
\* the data request fails in transport or with a status that is no success,
\* the call returns the error and the store is left as it was.
C11_KeyThenOneRequest == []NetworkPathState /\ [][DataRequestAfterKey]_vars

\* A bypassing call whose data request came back with a status that is no
\* success, over a store that holds an entry under the call's key.
C11_Witness ==
    /\ pc = "done"
    /\ call.should_cache = FALSE
    /\ keyRes.tag = "Ok"
    /\ dataCalls = 1
    /\ crRet = Err(ReqwestError("status"))
    /\ store0[call.ckey] # None
    /\ store = store0

----------------------------------------------------------------------------
(* get_schema (lib.rs): the cache key and the request of a timetable query *)

\* impl Default for Dimensions
DefaultDimensions == [width |-> <<"8", "0", "0">>, height |-> <<"6", "0", "0">>]

\* now.year()
NowYear == 2026

\* (host, unit_guid, selection) triples, weeks, days of the week and
\* dimensions of the queries
SelectionTriples == {<<"s", "1u", "c">>, <<"s1", "u", "c">>, <<"s1", "u", "c1">>}
Weeks == {2, 12}
DaysOfWeek == {0, 3}
DimensionOptions ==
    {None,
     Some(DefaultDimensions),
     Some([width |-> <<"1", "0", "2", "4">>, height |-> <<"7", "6", "8">>])}

Queries ==
    [selection : SelectionTriples,
     day_of_week : DaysOfWeek,
     week : Weeks,
     dimensions : DimensionOptions]

\* let ckey = (&selection.0).to_string() + &selection.1 + &selection.2
\*            + &week.to_string() + &day_of_week.to_string();
SchemaKey(q) ==
    q.selection[1] \o q.selection[2] \o q.selection[3]
        \o ToString(q.week) \o ToString(q.day_of_week)

SchemaKeys == {SchemaKey(q) : q \in Queries}

\* dimensions.unwrap_or_default()
unwrap_or_default(dimensions) ==
    IF dimensions = None THEN DefaultDimensions ELSE Unwrap(dimensions)

\* let data = serde_json::json!({ .. }): the request sent to the server
SchemaRequest(q) ==
    LET dimensions == unwrap_or_default(q.dimensions)
    IN  [host |-> q.selection[1],
         unitGuid |-> q.selection[2],
         scheduleDay |-> q.day_of_week,
         blackAndWhite |-> FALSE,
         width |-> dimensions.width,
         height |-> dimensions.height,
         selectionType |-> 0,
         selection |-> q.selection[3],
         showHeader |-> FALSE,
         periodText |-> "",
         week |-> q.week,
         year |-> NowYear,
         privateSelectionMode |-> FALSE,
         customerKey |-> ""]

\* The texts the server may answer a timetable request with: the envelope
\* around the timetable rendered for that request, or a text that is no
\* JSON.
TimetableBody(request) ==
    [json |-> TRUE,
     error |-> JNull,
     data |-> [rendered |-> request, lessonInfo |-> JNull],
     exception |-> JNull,
     validation |-> <<>>,
     sessionExpires |-> JNull,
     needSessionRefresh |-> FALSE]

TimetableResponses(request) == {TimetableBody(request), NotJson}

\* serde_json::from_str::<data::Response<data::Schema>>; lesson_info is
\* read with deserialize_null_default.
DecodeSchemaResponse(text) ==
    IF ~text.json
    THEN Err(SerdeError)
    ELSE Ok([error |-> text.error,
             data |-> [rendered |-> text.data.rendered,
                       lesson_info |-> IF is_null(text.data.lessonInfo)
                                       THEN <<>>
                                       ELSE text.data.lessonInfo],
             exception |-> text.exception,
             validation |-> text.validation,
             session_expires |-> text.sessionExpires,
             need_session_refresh |-> text.needSessionRefresh])

\* cache_request run to its end on store st: every way the call can go, each
\* with the path it took, what it returned and the store it left.
\* The network path with the render key in hand: the data request, then
\* cacache::write of the text received.
FetchOutcomes(st, ckey, reqdata) ==
    {[path |-> "network", ret |-> Err(ReqwestError(c)), store |-> st] :
        c \in {"transport", "status"}}
    \cup UNION {
        {[path |-> "network", ret |-> Ok(text),
          store |-> StoreAfterWrite(st, ckey, text)],
         [path |-> "network", ret |-> Err(CacacheError("Io")), store |-> st]} :
        text \in TimetableResponses(reqdata)}

\* The Err(_) arm: get_key().await?, then the data request.
NetworkOutcomes(st, ckey, reqdata) ==
    UNION {IF k.tag = "Ok"
           THEN FetchOutcomes(st, ckey, reqdata)
           ELSE {[path |-> "network", ret |-> k, store |-> st]} :
           k \in KeyOutcomes}

\* let data = if should_cache { match cacache::read .. } else { Err(Empty) };
\* match data { Ok(data) => Ok(from_utf8(&data)?.to_owned()), Err(_) => .. }
cache_request(st, ckey, reqdata, should_cache) ==
    {[path |-> "xdg", ret |-> Err(e), store |-> st] :
        e \in {BaseDirectoriesError, IOError}}
    \cup UNION {
        IF d.tag = "Ok"
        THEN {[path |-> "hit", ret |-> from_utf8(d.val), store |-> st]}
        ELSE NetworkOutcomes(st, ckey, reqdata) :
        d \in IF should_cache
              THEN {Lookup(r.res) : r \in ReadOutcomes(st, ckey)}
              ELSE {Err(EmptyError)}}

\* get_schema after cache_request has answered r: the `?` on r and the
\* decoding.
get_schema_of(r) == IF r.tag # "Ok" THEN r ELSE DecodeSchemaResponse(r.val)

SchemaInit ==
    /\ qIn \in [1..2 -> Queries]
    /\ qStore = [k \in SchemaKeys |-> None]
    /\ qOut = <<>>

\* pub async fn get_schema, called with the next query of qIn
GetSchema ==
    /\ Len(qOut) < Len(qIn)
    /\ LET q == qIn[Len(qOut) + 1]
           ckey == SchemaKey(q)
           data == SchemaRequest(q)
       IN  \E should_cache \in BOOLEAN :
           \E o \in cache_request(qStore, ckey, data, should_cache) :
              /\ qStore' = o.store
              /\ qOut' = Append(qOut, [ckey |-> ckey,
                                       data |-> data,
                                       should_cache |-> should_cache,
                                       path |-> o.path,
                                       ret |-> get_schema_of(o.ret)])
    /\ UNCHANGED <<qIn, cacheVars, unwrapVars, colorVars, dimVars, boxVars,
                   svgVars>>

InitSchema ==
    SchemaInit /\ CacheOff /\ UnwrapOff /\ ColorOff /\ DimOff /\ BoxOff /\ SvgOff
NextSchema == GetSchema
SpecSchema == InitSchema /\ [][NextSchema]_vars

\* The second call returned, from the store, the timetable rendered for a
\* request other than its own.
ServedAnotherQuery ==
    /\ Len(qOut) = 2
    /\ qOut[2].should_cache
    /\ qOut[2].path = "hit"
    /\ qOut[2].ret.tag = "Ok"
    /\ qOut[2].ret.val.data.rendered # qOut[2].data

\* C12: two get_schema queries that differ in a parameter sent to the
\* server (host, unit_guid, selection, week, day_of_week or dimensions)
\* have different cache keys, and so a caching call is never answered with
\* the response stored for a different query.
C12_DistinctQueriesDistinctKeys ==
    Len(qOut) = 2 =>
        /\ qOut[1].data # qOut[2].data => qOut[1].ckey # qOut[2].ckey
        /\ ~ServedAnotherQuery

====
